---- MODULE Spec2Model ----
(***************************************************************************)
(* A model of the Aseprite file decoder of src/src/lib.rs: the byte cursor *)
(* (Parser), the frame / chunk loop of AsepriteFile::parse, next_frame and *)
(* apply_chunk, and the compositing engine (Image::draw, draw_pixel,       *)
(* mul_un8).                                                               *)
(*                                                                         *)
(* The stream is not stored byte by byte.  Its length (total) is fixed in  *)
(* Init; the value of every field the decoder reads is drawn from a small  *)
(* set in the action that reads it, which is the same as the stream        *)
(* holding an arbitrary value there.  The zlib decompressor                *)
(* (inflate::inflate_bytes_zlib) is an external collaborator: its result,  *)
(* an error or a byte buffer of any length, is an input as well.           *)
(*                                                                         *)
(* Outcomes of a load: "Ok" (a document is returned), the three values of  *)
(* AsepriteError ("CorruptFile", "Unimplemented", "Error" for a wrapped    *)
(* std error such as a short read), and "panic" (the thread unwinds on a   *)
(* failed assert_eq!, unwrap, index or arithmetic check: no Result is      *)
(* returned at all).                                                       *)
(***************************************************************************)
EXTENDS Integers, Sequences, FiniteSets, TLC

----------------------------------------------------------------------------
(* Bounds of the model *)

MaxFrames == 2     \* the largest frame count a file header declares
MaxChunks == 4     \* the most chunks the frame headers of a stream declare in all
MaxLayers == 2     \* the most layer chunks applied
MaxCels == 2       \* the most cels drawn
MaxSliceChunks == 3   \* the most slice and user-data chunks of a stream

----------------------------------------------------------------------------
(* Program constants, src/src/constants.rs *)

LAYER_VISIBLE == 1
ASE_FILE_MAGIC == 42464
ASE_FILE_FRAME_MAGIC == 61946
ASE_FILE_CHUNK_FLI_COLOR2 == 4
ASE_FILE_CHUNK_FLI_COLOR == 11
ASE_FILE_CHUNK_LAYER == 8196
ASE_FILE_CHUNK_CEL == 8197
ASE_FILE_CHUNK_CEL_EXTRA == 8198
ASE_FILE_CHUNK_COLOR_PROFILE == 8199
ASE_FILE_CHUNK_MASK == 8214
ASE_FILE_CHUNK_PATH == 8215
ASE_FILE_CHUNK_TAGS == 8216
ASE_FILE_CHUNK_PALETTE == 8217
ASE_FILE_CHUNK_USER_DATA == 8224
ASE_FILE_CHUNK_SLICE == 8226
ASE_FILE_CHUNK_TILESET == 8227
ASE_FILE_RAW_CEL == 0
ASE_FILE_LINK_CEL == 1
ASE_FILE_COMPRESSED_CEL == 2
ASE_USER_DATA_FLAG_HAS_TEXT == 1
ASE_USER_DATA_FLAG_HAS_COLOR == 2

(* Sizes in bytes of what the decoder reads, from the reads in the code *)
FileHeaderBytes == 47      \* AsepriteFileHeader::parse: the sum of its fields
FirstFrameOffset == 128    \* parser.seek(128)
FrameHeaderBytes == 16     \* u32 + u16 + u16 + u16 + skip(6)
ChunkHeaderBytes == 6      \* u32 size + u16 type
CelHeaderBytes == 16       \* u16 + i16 + i16 + u8 + u16 + skip(7)
CelDimBytes == 4           \* u16 w + u16 h
LinkBytes == 2             \* u16 linked_frame
LayerFixedBytes == 16      \* 6 * u16 + u8 + skip(3)
StringLenBytes == 2        \* the u16 length prefix of a String
I16Max == 32767
U8Max == 255               \* the largest value of a u8 channel or opacity

----------------------------------------------------------------------------
(* Integer helpers: Rust's `/` on i32 truncates toward zero, `as u8` keeps *)
(* the low eight bits.                                                     *)

TruncDiv(a, b) == IF a >= 0 THEN a \div b ELSE -((-a) \div b)

AsU8(v) == v % 256

----------------------------------------------------------------------------
(* Compositing engine *)

mul_un8_Shift(a, b) == (a * b) \div 256

mul_un8_NoRound(a, b) == (a * b) \div 255

mul_un8(a, b) ==
    LET t == a * b + 128
    IN  ((t \div 256) + t) \div 256

ImageNewFromData(width, height, data) ==
    [width |-> width, height |-> height, data |-> data]

ImageNew_TransparentWhite(width, height) ==
    ImageNewFromData(width, height,
        [i \in 1..(width * height * 4) |-> IF i % 4 = 0 THEN 0 ELSE 255])

ImageNew(width, height) ==
    ImageNewFromData(width, height, [i \in 1..(width * height * 4) |-> 0])

(* new_from_data's assert_eq! *)
ImageDataFits(width, height, data) == width * height * 4 = Len(data)

(* The row count draw_pixel checks y against: data.len() / width.  *)
DrawPixelRows(self) == Len(self.data) \div self.width

(* draw_pixel returns early (the pixel is dropped) *)
DrawPixelDropped(self, x, y) ==
    x < 0 \/ y < 0 \/ x >= self.width \/ y >= DrawPixelRows(self)

(* draw_pixel panics: division by a zero width, or an index past the end of *)
(* data for a pixel the bounds check let through.                           *)
DrawPixelPanics(self, x, y) ==
    \/ self.width = 0
    \/ /\ ~DrawPixelDropped(self, x, y)
       /\ (x + y * self.width) * 4 + 3 >= Len(self.data)

ResultAlpha_Sum(sa, ba) == sa + ba

(* draw_pixel's `ra`: sa + ba - mul_un8(ba, sa) *)
ResultAlpha(sa, ba) == sa + ba - mul_un8(ba, sa)

(* draw_pixel's `rr`, `rg`, `rb` before `as u8`: b + (s - b) * sa / ra *)
BlendChannel(b, s, sa, ra) == b + TruncDiv((s - b) * sa, ra)

(* draw_pixel when it does not panic: the image after the call *)
draw_pixel(self, x, y, sr0, sg0, sb0, sa0, opacity) ==
    IF DrawPixelDropped(self, x, y) THEN self
    ELSE
      LET idx == (x + y * self.width) * 4
          br == self.data[idx + 1]
          bg == self.data[idx + 2]
          bb == self.data[idx + 3]
          ba == self.data[idx + 4]
          sa == mul_un8(sa0, opacity)
          ra == ResultAlpha(sa, ba)
          px == IF ra = 0 THEN <<0, 0, 0, 0>>
                ELSE << AsU8(BlendChannel(br, sr0, sa, ra)),
                        AsU8(BlendChannel(bg, sg0, sa, ra)),
                        AsU8(BlendChannel(bb, sb0, sa, ra)),
                        AsU8(ra) >>
      IN [self EXCEPT !.data =
            [i \in 1..Len(self.data) |->
                IF i > idx /\ i <= idx + 4 THEN px[i - idx] ELSE self.data[i]]]

(* The pixels of `other` that the loops of draw visit, in order: with      *)
(* overflow checks off a wrapped end makes a range empty.                  *)
DrawRowCount(y, other) == IF y + other.height > I16Max THEN 0 ELSE other.height

DrawColCount(x, other) == IF x + other.width > I16Max THEN 0 ELSE other.width

(* draw panics before or while looping.  overflow_checks is the build      *)
(* profile's setting (on in debug, off in release).                        *)
RECURSIVE DrawLoopPanics(_, _, _, _, _, _)
DrawLoopPanics(self, x, y, cols, n, k) ==
    IF k >= n THEN FALSE
    ELSE \/ DrawPixelPanics(self, x + (k % cols), y + (k \div cols))
         \/ DrawLoopPanics(self, x, y, cols, n, k + 1)

DrawPanics(self, x, y, other, overflow_checks) ==
    \/ other.width > I16Max
    \/ other.height > I16Max
    \/ overflow_checks /\ y + other.height > I16Max
    \/ /\ DrawRowCount(y, other) > 0
       /\ overflow_checks
       /\ x + other.width > I16Max
    \/ LET cols == DrawColCount(x, other)
           n == cols * DrawRowCount(y, other)
       IN  n > 0 /\ DrawLoopPanics(self, x, y, cols, n, 0)

RECURSIVE DrawLoop(_, _, _, _, _, _, _, _)
DrawLoop(self, x, y, other, opacity, cols, n, k) ==
    IF k >= n THEN self
    ELSE DrawLoop(
           draw_pixel(self, x + (k % cols), y + (k \div cols),
                      other.data[4 * k + 1], other.data[4 * k + 2],
                      other.data[4 * k + 3], other.data[4 * k + 4], opacity),
           x, y, other, opacity, cols, n, k + 1)

(* draw when it does not panic: the image after the call *)
draw(self, x, y, other, opacity) ==
    LET cols == DrawColCount(x, other)
        n == cols * DrawRowCount(y, other)
    IN  DrawLoop(self, x, y, other, opacity, cols, n, 0)

----------------------------------------------------------------------------
(* Layers *)

visible_Always(l) == TRUE

(* Layer::visible *)
visible(l) == (l.flags % (2 * LAYER_VISIBLE)) \div LAYER_VISIBLE # 0

(* next_frame's `while self.layers.len() > frame.layers.len()` loop *)
RECURSIVE PushCanvases(_, _, _, _)
PushCanvases(frame_layers, nlayers, width, height) ==
    IF nlayers > Len(frame_layers)
    THEN PushCanvases(Append(frame_layers, ImageNew(width, height)),
                      nlayers, width, height)
    ELSE frame_layers

(* next_frame's finalization loop panics: frame.layers[i] is indexed past  *)
(* its end for a visible layer, or draw panics.                            *)
RECURSIVE FinalizePanics(_, _, _, _)
FinalizePanics(image, ls, frame_layers, i) ==
    IF i > Len(ls) THEN FALSE
    ELSE IF visible(ls[i])
    THEN \/ i > Len(frame_layers)
         \/ DrawPanics(image, 0, 0, frame_layers[i], TRUE)
         \/ FinalizePanics(draw(image, 0, 0, frame_layers[i], ls[i].opacity),
                           ls, frame_layers, i + 1)
    ELSE FinalizePanics(image, ls, frame_layers, i + 1)

RECURSIVE FinalizeImage_FullOpacity(_, _, _, _)
FinalizeImage_FullOpacity(image, ls, frame_layers, i) ==
    IF i > Len(ls) THEN image
    ELSE IF visible(ls[i])
    THEN FinalizeImage_FullOpacity(draw(image, 0, 0, frame_layers[i], 255),
                                   ls, frame_layers, i + 1)
    ELSE FinalizeImage_FullOpacity(image, ls, frame_layers, i + 1)

(* next_frame's finalization loop when it does not panic: frame.image *)
RECURSIVE FinalizeImage(_, _, _, _)
FinalizeImage(image, ls, frame_layers, i) ==
    IF i > Len(ls) THEN image
    ELSE IF visible(ls[i])
    THEN FinalizeImage(draw(image, 0, 0, frame_layers[i], ls[i].opacity),
                       ls, frame_layers, i + 1)
    ELSE FinalizeImage(image, ls, frame_layers, i + 1)

----------------------------------------------------------------------------
(* Byte cursor *)

NoMoreFrames_OffByOne(cur, declared) == cur > declared

(* next_frame's test for `return Ok(None)` *)
NoMoreFrames(cur, declared) == cur >= declared

AdvanceToFails_Never(p, n) == FALSE

(* advance_to's test for the CorruptFile error *)
AdvanceToFails(p, n) == n < p

(* advance_to when it succeeds: pos after next_n(n - pos) *)
AdvanceTo(p, n) == p + (n - p)

(* `chunk_end - self.parser.position()` on usize: with overflow checks the *)
(* subtraction panics; without, it wraps to a length near 2^64 that        *)
(* Vec::extend refuses with a capacity-overflow panic.  Either way the     *)
(* thread panics.                                                          *)
PayloadLenPanics(chunk_end, p) == chunk_end < p

ChunkArm_SkipsUnknown(chunk_type) ==
    CASE chunk_type = ASE_FILE_CHUNK_CEL -> "cel"
      [] chunk_type = ASE_FILE_CHUNK_LAYER -> "layer"
      [] OTHER -> "skip"

ChunkArm_NoPalette(chunk_type) ==
    CASE chunk_type = ASE_FILE_CHUNK_COLOR_PROFILE -> "skip"
      [] chunk_type = ASE_FILE_CHUNK_FLI_COLOR2 -> "skip"
      [] chunk_type = ASE_FILE_CHUNK_CEL -> "cel"
      [] chunk_type = ASE_FILE_CHUNK_LAYER -> "layer"
      [] OTHER -> "unimplemented"

(* The match of apply_chunk on chunk_type *)
ChunkArm(chunk_type) ==
    CASE chunk_type = ASE_FILE_CHUNK_COLOR_PROFILE -> "skip"
      [] chunk_type = ASE_FILE_CHUNK_PALETTE -> "skip"
      [] chunk_type = ASE_FILE_CHUNK_FLI_COLOR2 -> "skip"
      [] chunk_type = ASE_FILE_CHUNK_CEL -> "cel"
      [] chunk_type = ASE_FILE_CHUNK_LAYER -> "layer"
      [] OTHER -> "unimplemented"

(* The match of apply_chunk on cel_type *)
CelArm(cel_type) ==
    CASE cel_type = ASE_FILE_COMPRESSED_CEL -> "compressed"
      [] cel_type = ASE_FILE_LINK_CEL -> "link"
      [] OTHER -> "unimplemented"

(* The messages of the Unimplemented errors: format!("unhandled chunk type *)
(* 0x{:x}", ct) and format!("unhandled cel type 0x{:x}", ct), as the text  *)
(* and the number formatted into it.                                       *)
UnhandledChunkType(ct) == <<"unhandled chunk type", ct>>

UnhandledCelType(ct) == <<"unhandled cel type", ct>>

----------------------------------------------------------------------------
(* Inputs: the values the stream may hold where the decoder reads them *)

StreamLens == {40, 200, 400}
FileMagics == {ASE_FILE_MAGIC, 0}
FrameMagics == {ASE_FILE_FRAME_MAGIC, 0}
CanvasDims == {<<1, 2>>}
Durations == {100}
ChunkSizes == {5, 40}
SkipTypes ==
    {ASE_FILE_CHUNK_COLOR_PROFILE, ASE_FILE_CHUNK_PALETTE, ASE_FILE_CHUNK_FLI_COLOR2}
OtherTypes ==
    {ASE_FILE_CHUNK_FLI_COLOR, ASE_FILE_CHUNK_CEL_EXTRA, ASE_FILE_CHUNK_MASK,
     ASE_FILE_CHUNK_PATH, ASE_FILE_CHUNK_TAGS, ASE_FILE_CHUNK_USER_DATA,
     ASE_FILE_CHUNK_SLICE, ASE_FILE_CHUNK_TILESET, 39321}
OtherCelTypes == {ASE_FILE_RAW_CEL, 3}

(* Every chunk type and cel type a stream of the model holds *)
ChunkTypes ==
    SkipTypes \cup OtherTypes \cup {ASE_FILE_CHUNK_LAYER, ASE_FILE_CHUNK_CEL}
CelTypes == OtherCelTypes \cup {ASE_FILE_LINK_CEL, ASE_FILE_COMPRESSED_CEL}
LayerKinds == {<<1, 255>>, <<1, 128>>, <<2, 255>>}
LayerNames == {[text |-> "bg", bytes |-> 2, utf8 |-> TRUE],
               [text |-> "", bytes |-> 2, utf8 |-> FALSE]}
CelOffsets == {<<0, 0>>, <<0, 1>>}
CelOpacities == {128, 255}

Red == <<255, 0, 0, 255>>
HalfWhite == <<255, 255, 255, 128>>
ClearRed == <<255, 0, 0, 0>>
Palette == {Red, HalfWhite, ClearRed}

(* The buffers of n pixels over the palette, as byte sequences *)
RECURSIVE Buffers(_)
Buffers(n) ==
    IF n = 0 THEN {<<>>}
    ELSE {b \o px : b \in Buffers(n - 1), px \in Palette}

(* What inflate_bytes_zlib may return for a cel declared w x h: an error,  *)
(* a buffer of w*h pixels, or a buffer one pixel short.                    *)
InflateResults(w, h) ==
    {[ok |-> FALSE, data |-> <<>>]}
    \cup {[ok |-> TRUE, data |-> b] : b \in Buffers(w * h)}
    \cup {[ok |-> TRUE, data |-> [i \in 1..((w * h - 1) * 4) |-> 0]]}

(* The visibility bit of a layer's flags as the file format defines it *)
VisibleBit(flags) == flags % 2 = 1

(* The cels a second stream may hold in place of a cel of an invisible     *)
(* layer: other pixels, another opacity.                                   *)
TwinCels(w, h) ==
    {[data |-> [i \in 1..(w * h * 4) |-> px[((i - 1) % 4) + 1]], opacity |-> o] :
        px \in {HalfWhite}, o \in {128}}

CelDims(width, height) == {<<1, 1>>, <<width, height>>}

----------------------------------------------------------------------------
(* State *)

VARIABLES
    total,        \* the length of the stream in bytes
    offset,       \* the reader's position in the stream
    pos,          \* Parser.pos
    header,       \* AsepriteFile.header (the fields the decoder uses)
    cur_frame,    \* AsepriteFile.cur_frame
    layers,       \* AsepriteFile.layers
    frames,       \* AsepriteFile.frames
    frame,        \* next_frame's local `frame`
    chunks_left,  \* iterations left of next_frame's `for _ in 0..chunks`
    pc,           \* "start", "next_frame", "chunks", "done"
    result,       \* "running" or the outcome of the load
    last,         \* history: the chunk apply_chunk handled last in this frame
    ncels,        \* history: the number of cels drawn so far
    cel1,         \* history: the first cel drawn, when it is a compressed cel
    known,        \* history: known[i] = layers.len() when frame i was finalized
    nchunks,      \* history: the chunks the frame headers read so far declared
    touched,      \* history: the layer indices cels of this frame were drawn on
    tframe,       \* the per-layer canvases of the frame in a second load
    tframes,      \* the frames of a second load of a stream that differs
                  \* from this one only in the cels of invisible layers
    d_pc, d_self, d_x, d_y, d_other, d_opacity, d_checks, d_out,
                  \* one call of Image::draw on its own (SpecDraw)
    m_pc, m_a, m_b, m_out,
                  \* one call of mul_un8 on its own (SpecMulUn8)
    slices,       \* the slice list of the document (SpecSlices)
    s_left,       \* the slice and user-data chunks left in the stream
    s_last,       \* history: the slice or user-data chunk applied last
    b_pc, b_dst, b_src, b_opacity, b_out
                  \* one call of Image::draw_pixel on a canvas of one
                  \* pixel (SpecPixel)

decoder_vars ==
    <<total, offset, pos, header, cur_frame, layers, frames, frame, chunks_left,
      pc, result, last, ncels, cel1, known, nchunks, touched, tframe, tframes>>

draw_vars == <<d_pc, d_self, d_x, d_y, d_other, d_opacity, d_checks, d_out>>

mul_vars == <<m_pc, m_a, m_b, m_out>>

slice_vars == <<slices, s_left, s_last>>

(* What the decoder's actions leave alone *)
pixel_vars == <<b_pc, b_dst, b_src, b_opacity, b_out>>

aside_vars == <<draw_vars, mul_vars, slice_vars, pixel_vars>>

vars == <<decoder_vars, draw_vars, mul_vars, slice_vars, pixel_vars>>

NoHeader == [magic |-> 0, frames |-> 0, width |-> 0, height |-> 0]
NoImage == ImageNew(0, 0)
NoFrame == [duration |-> 0, layers |-> <<>>, image |-> NoImage]
NoChunk ==
    [kind |-> "none", type |-> 0, start |-> 0, size |-> 0, before |-> 0,
     applied |-> FALSE, f |-> 0, nlayers |-> 0, cel_type |-> 0,
     layer_index |-> 0, linked_frame |-> 0, x |-> 0, y |-> 0, opacity |-> 0,
     fresh |-> FALSE, cause |-> "", message |-> <<>>]
NoCel ==
    [f |-> 0, layer_index |-> 0, x |-> 0, y |-> 0, opacity |-> 0, cel |-> NoImage]

DecoderIdle ==
    /\ total = 0 /\ offset = 0 /\ pos = 0 /\ header = NoHeader /\ cur_frame = 0
    /\ layers = <<>> /\ frames = <<>> /\ frame = NoFrame /\ chunks_left = 0
    /\ pc = "idle" /\ result = "running" /\ last = NoChunk /\ ncels = 0
    /\ cel1 = NoCel /\ known = <<>> /\ nchunks = 0 /\ touched = {}
    /\ tframe = <<>> /\ tframes = <<>>

DrawIdle ==
    /\ d_pc = "idle" /\ d_self = NoImage /\ d_x = 0 /\ d_y = 0
    /\ d_other = NoImage /\ d_opacity = 0 /\ d_checks = FALSE /\ d_out = NoImage

MulIdle == m_pc = "idle" /\ m_a = 0 /\ m_b = 0 /\ m_out = 0

NoSliceChunk == [kind |-> "none", after |-> "none", flags |-> 0, text |-> "",
                 color |-> <<0, 0, 0, 0>>]

SlicesIdle == slices = <<>> /\ s_left = 0 /\ s_last = NoSliceChunk

PixelIdle ==
    /\ b_pc = "idle" /\ b_dst = <<0, 0, 0, 0>> /\ b_src = <<0, 0, 0, 0>>
    /\ b_opacity = 0 /\ b_out = <<0, 0, 0, 0>>

(* Parser::new: nothing read yet *)
Init ==
    /\ total \in StreamLens
    /\ offset = 0 /\ pos = 0 /\ header = NoHeader /\ cur_frame = 0
    /\ layers = <<>> /\ frames = <<>> /\ frame = NoFrame /\ chunks_left = 0
    /\ pc = "start" /\ result = "running" /\ last = NoChunk /\ ncels = 0
    /\ cel1 = NoCel /\ known = <<>> /\ nchunks = 0 /\ touched = {}
    /\ tframe = <<>> /\ tframes = <<>>
    /\ DrawIdle
    /\ MulIdle
    /\ SlicesIdle
    /\ PixelIdle

----------------------------------------------------------------------------
(* AsepriteFile::parse, next_frame, apply_chunk *)

(* The load ends without a document: parse returns Err or unwinds, and    *)
(* the AsepriteFile with its layers and frames is dropped.                 *)
Stop(outcome, chunk) ==
    /\ result' = outcome
    /\ pc' = "done"
    /\ last' = chunk
    /\ layers' = <<>> /\ frames' = <<>> /\ frame' = NoFrame
    /\ tframe' = <<>> /\ tframes' = <<>>
    /\ known' = <<>> /\ touched' = {} /\ ncels' = 0 /\ cel1' = NoCel
    /\ UNCHANGED <<total, offset, pos, header, cur_frame, chunks_left, nchunks>>

Chunk(kind, type, size, before, applied, cel_type, li, lf) ==
    [kind |-> kind, type |-> type, start |-> pos, size |-> size,
     before |-> before, applied |-> applied, f |-> Len(frames),
     nlayers |-> Len(layers), cel_type |-> cel_type, layer_index |-> li,
     linked_frame |-> lf, x |-> 0, y |-> 0, opacity |-> 0,
     fresh |-> li \notin touched, cause |-> "", message |-> <<>>]

(* The chunk with the placement its cel was drawn with *)
Placed(chunk, x, y, opacity) ==
    [chunk EXCEPT !.x = x, !.y = y, !.opacity = opacity]

(* The chunk with the check that ended the load *)
Because(chunk, cause) == [chunk EXCEPT !.cause = cause]

(* The stream ended inside a read of the chunk: read_exact fails *)
ShortChunk == [NoChunk EXCEPT !.kind = "short", !.start = pos]

(* parse, up to its loop: the file header, its magic, seek(128) *)
ParseHeader ==
    /\ pc = "start"
    /\ \E magic \in FileMagics, n \in 0..MaxFrames, dims \in CanvasDims :
         IF FileHeaderBytes > total
         THEN /\ Stop("Error", NoChunk)
              /\ UNCHANGED aside_vars
         ELSE /\ header' = [magic |-> magic, frames |-> n,
                            width |-> dims[1], height |-> dims[2]]
              /\ IF magic # ASE_FILE_MAGIC
                 THEN /\ result' = "panic" /\ pc' = "done"
                      /\ UNCHANGED <<pos, offset>>
                 ELSE /\ pos' = FileHeaderBytes
                      /\ offset' = FirstFrameOffset
                      /\ pc' = "next_frame"
                      /\ UNCHANGED result
              /\ UNCHANGED <<total, cur_frame, layers, frames, frame, chunks_left,
                             last, ncels, cel1, known, nchunks, touched, tframe,
                             tframes>>
              /\ UNCHANGED aside_vars

(* next_frame returns None and parse returns Ok(file) *)
ParseReturns ==
    /\ pc = "next_frame"
    /\ NoMoreFrames(cur_frame, header.frames)
    /\ result' = "Ok"
    /\ pc' = "done"
    /\ UNCHANGED <<total, offset, pos, header, cur_frame, layers, frames, frame,
                   chunks_left, last, ncels, cel1, known, nchunks, touched, tframe,
                   tframes>>
    /\ UNCHANGED aside_vars

(* next_frame, up to its chunk loop: the frame header and the new frame *)
NextFrame ==
    /\ pc = "next_frame"
    /\ ~NoMoreFrames(cur_frame, header.frames)
    /\ \E magic \in FrameMagics, chunks \in 0..(MaxChunks - nchunks),
          duration \in Durations :
         IF offset + FrameHeaderBytes > total
         THEN Stop("Error", NoChunk)
         ELSE IF magic # ASE_FILE_FRAME_MAGIC
         THEN Stop("panic", [NoChunk EXCEPT !.kind = "frame magic"])
         ELSE /\ cur_frame' = cur_frame + 1
              /\ pos' = pos + FrameHeaderBytes
              /\ offset' = offset + FrameHeaderBytes
              /\ frame' = [duration |-> duration, layers |-> <<>>,
                           image |-> ImageNew(header.width, header.height)]
              /\ tframe' = <<>>
              /\ chunks_left' = chunks
              /\ pc' = "chunks"
              /\ last' = NoChunk
              /\ touched' = {}
              /\ nchunks' = nchunks + chunks
              /\ UNCHANGED <<total, header, layers, frames, result, ncels, cel1,
                             known, tframes>>
    /\ UNCHANGED aside_vars

(* The chunk was handled and advance_to(chunk_end) returned Ok *)
Applied(frame_layers, twin_layers, ls, chunk_end, chunk) ==
    /\ frame' = [frame EXCEPT !.layers = frame_layers]
    /\ tframe' = twin_layers
    /\ layers' = ls
    /\ pos' = AdvanceTo(chunk.before, chunk_end)
    /\ offset' = offset + (AdvanceTo(chunk.before, chunk_end) - pos)
    /\ chunks_left' = chunks_left - 1
    /\ last' = chunk
    /\ UNCHANGED <<total, header, cur_frame, frames, pc, result, known, nchunks,
                   tframes>>

(* The canvases of the frame when apply_chunk is called *)
Canvases(frame_layers) ==
    PushCanvases(frame_layers, Len(layers), header.width, header.height)

(* One iteration of the chunk loop: a color profile, palette or FLI_COLOR2 *)
(* chunk (the arms that do nothing)                                        *)
ApplySkipped ==
    /\ pc = "chunks" /\ chunks_left > 0
    /\ \E size \in ChunkSizes, type \in {t \in ChunkTypes : ChunkArm(t) = "skip"} :
         LET chunk_end == pos + size
             before == pos + ChunkHeaderBytes
         IN  IF offset + ChunkHeaderBytes > total
             THEN Stop("Error", ShortChunk)
             ELSE IF AdvanceToFails(before, chunk_end)
             THEN Stop("CorruptFile",
                       Because(Chunk("skip", type, size, before, FALSE, 0, 0, 0),
                               "advance_to"))
             ELSE IF offset + size > total
             THEN Stop("Error", ShortChunk)
             ELSE /\ Applied(Canvases(frame.layers), Canvases(tframe), layers,
                             chunk_end,
                             Chunk("skip", type, size, before, TRUE, 0, 0, 0))
                  /\ UNCHANGED <<ncels, cel1, touched>>
    /\ UNCHANGED aside_vars

(* One iteration of the chunk loop: a chunk of a type with no arm *)
ApplyUnimplemented ==
    /\ pc = "chunks" /\ chunks_left > 0
    /\ \E size \in ChunkSizes,
          type \in {t \in ChunkTypes : ChunkArm(t) = "unimplemented"} :
         IF offset + ChunkHeaderBytes > total
         THEN Stop("Error", ShortChunk)
         ELSE Stop("Unimplemented",
                   [Chunk("other", type, size, pos + ChunkHeaderBytes, FALSE,
                          0, 0, 0)
                      EXCEPT !.message = UnhandledChunkType(type)])
    /\ UNCHANGED aside_vars

(* One iteration of the chunk loop: a layer chunk *)
ApplyLayer ==
    /\ pc = "chunks" /\ chunks_left > 0
    /\ Len(layers) < MaxLayers
    /\ ChunkArm(ASE_FILE_CHUNK_LAYER) = "layer"
    /\ \E size \in ChunkSizes, kind \in LayerKinds, name \in LayerNames :
         LET flags == kind[1]
             opacity == kind[2]
             chunk_end == pos + size
             read == ChunkHeaderBytes + LayerFixedBytes + StringLenBytes + name.bytes
             before == pos + read
             layer == [flags |-> flags, layer_type |-> 0, child_level |-> 0,
                       default_width |-> 0, default_height |-> 0,
                       blend_mode |-> 0, opacity |-> opacity, name |-> name.text]
             chunk == Chunk("layer", ASE_FILE_CHUNK_LAYER, size, before, FALSE, 0, 0, 0)
         IN  IF offset + read > total
             THEN Stop("Error", ShortChunk)
             ELSE IF ~name.utf8
             THEN Stop("Error", Because(chunk, "utf8"))
             ELSE IF AdvanceToFails(before, chunk_end)
             THEN Stop("CorruptFile", Because(chunk, "advance_to"))
             ELSE IF offset + size > total
             THEN Stop("Error", ShortChunk)
             ELSE /\ Applied(Canvases(frame.layers), Canvases(tframe),
                             Append(layers, layer), chunk_end,
                             [chunk EXCEPT !.applied = TRUE])
                  /\ UNCHANGED <<ncels, cel1, touched>>
    /\ UNCHANGED aside_vars

(* A cel chunk was handled: the histories of the cels *)
CelDrawn(li, x, y, opacity, cel) ==
    /\ ncels' = ncels + 1
    /\ touched' = touched \cup {li}
    /\ cel1' = IF ncels = 0
               THEN [f |-> Len(frames), layer_index |-> li, x |-> x, y |-> y,
                     opacity |-> opacity, cel |-> cel]
               ELSE cel1

(* One iteration of the chunk loop: a compressed cel *)
ApplyCompressedCel ==
    /\ pc = "chunks" /\ chunks_left > 0
    /\ ncels < MaxCels
    /\ ChunkArm(ASE_FILE_CHUNK_CEL) = "cel"
    /\ CelArm(ASE_FILE_COMPRESSED_CEL) = "compressed"
    /\ \E size \in ChunkSizes, li \in 0..MaxLayers :
         LET chunk_end == pos + size
             read == ChunkHeaderBytes + CelHeaderBytes + CelDimBytes
             fl == Canvases(frame.layers)
             tfl == Canvases(tframe)
             chunk == Chunk("compressed", ASE_FILE_CHUNK_CEL, size, chunk_end,
                            FALSE, ASE_FILE_COMPRESSED_CEL, li, 0)
         IN  IF offset + read > total
             THEN Stop("Error", ShortChunk)
             ELSE IF PayloadLenPanics(chunk_end, pos + read)
             THEN Stop("panic", Because([chunk EXCEPT !.before = pos + read],
                                        "payload length"))
             ELSE IF offset + size > total
             THEN Stop("Error", ShortChunk)
             ELSE \E dims \in CelDims(header.width, header.height) :
                  \E inflated \in InflateResults(dims[1], dims[2]) :
                    IF ~inflated.ok
                    THEN Stop("CorruptFile", Because(chunk, "inflate"))
                    ELSE IF ~ImageDataFits(dims[1], dims[2], inflated.data)
                    THEN Stop("panic", Because(chunk, "data length"))
                    ELSE IF li >= Len(fl)
                    THEN Stop("panic", Because(chunk, "layer index"))
                    ELSE \E at \in CelOffsets, opacity \in CelOpacities :
                      LET cel == ImageNewFromData(dims[1], dims[2], inflated.data)
                      IN  \/ /\ DrawPanics(fl[li + 1], at[1], at[2], cel, TRUE)
                             /\ Stop("panic", Because(chunk, "draw"))
                          \/ /\ ~DrawPanics(fl[li + 1], at[1], at[2], cel, FALSE)
                             /\ ~AdvanceToFails(chunk_end, chunk_end)
                             /\ \E twin \in IF VisibleBit(layers[li + 1].flags)
                                            THEN {[data |-> inflated.data,
                                                   opacity |-> opacity]}
                                            ELSE TwinCels(dims[1], dims[2]) :
                                  Applied(
                                    [fl EXCEPT ![li + 1] =
                                        draw(@, at[1], at[2], cel, opacity)],
                                    [tfl EXCEPT ![li + 1] =
                                        draw(@, at[1], at[2],
                                             ImageNewFromData(dims[1], dims[2],
                                                              twin.data),
                                             twin.opacity)],
                                    layers, chunk_end,
                                    Placed([chunk EXCEPT !.applied = TRUE],
                                           at[1], at[2], opacity))
                             /\ CelDrawn(li, at[1], at[2], opacity, cel)
    /\ UNCHANGED aside_vars

(* One iteration of the chunk loop: a linked cel *)
ApplyLinkedCel ==
    /\ pc = "chunks" /\ chunks_left > 0
    /\ ncels < MaxCels
    /\ ChunkArm(ASE_FILE_CHUNK_CEL) = "cel"
    /\ CelArm(ASE_FILE_LINK_CEL) = "link"
    /\ \E size \in ChunkSizes, li \in 0..MaxLayers, lf \in 0..MaxFrames :
         LET chunk_end == pos + size
             read == ChunkHeaderBytes + CelHeaderBytes + LinkBytes
             before == pos + read
             fl == Canvases(frame.layers)
             tfl == Canvases(tframe)
             chunk == Chunk("link", ASE_FILE_CHUNK_CEL, size, before, FALSE,
                            ASE_FILE_LINK_CEL, li, lf)
         IN  IF offset + read > total
             THEN Stop("Error", ShortChunk)
             ELSE IF lf >= Len(frames)
             THEN Stop("panic", Because(chunk, "linked frame"))
             ELSE IF li >= Len(frames[lf + 1].layers)
             THEN Stop("panic", Because(chunk, "linked layer"))
             ELSE IF li >= Len(fl)
             THEN Stop("panic", Because(chunk, "layer index"))
             ELSE \E at \in CelOffsets, opacity \in CelOpacities :
               LET cel == frames[lf + 1].layers[li + 1]
               IN  \/ /\ DrawPanics(fl[li + 1], at[1], at[2], cel, TRUE)
                      /\ Stop("panic", Because(chunk, "draw"))
                   \/ /\ ~DrawPanics(fl[li + 1], at[1], at[2], cel, FALSE)
                      /\ IF AdvanceToFails(before, chunk_end)
                         THEN Stop("CorruptFile", Because(chunk, "advance_to"))
                         ELSE IF offset + size > total
                         THEN Stop("Error", ShortChunk)
                         ELSE /\ Applied(
                                   [fl EXCEPT ![li + 1] =
                                       draw(@, at[1], at[2], cel, opacity)],
                                   [tfl EXCEPT ![li + 1] =
                                       draw(@, at[1], at[2],
                                            tframes[lf + 1].layers[li + 1],
                                            opacity)],
                                   layers, chunk_end,
                                   Placed([chunk EXCEPT !.applied = TRUE],
                                          at[1], at[2], opacity))
                              /\ ncels' = ncels + 1
                              /\ touched' = touched \cup {li}
                              /\ UNCHANGED cel1
    /\ UNCHANGED aside_vars

(* One iteration of the chunk loop: a cel of a type with no arm *)
ApplyUnimplementedCel ==
    /\ pc = "chunks" /\ chunks_left > 0
    /\ ChunkArm(ASE_FILE_CHUNK_CEL) = "cel"
    /\ \E size \in ChunkSizes, li \in 0..MaxLayers,
          ct \in {t \in CelTypes : CelArm(t) = "unimplemented"} :
         LET read == ChunkHeaderBytes + CelHeaderBytes
         IN  IF offset + read > total
             THEN Stop("Error", ShortChunk)
             ELSE Stop("Unimplemented",
                       [Chunk("cel", ASE_FILE_CHUNK_CEL, size, pos + read, FALSE,
                              ct, li, 0)
                          EXCEPT !.message = UnhandledCelType(ct)])
    /\ UNCHANGED aside_vars

PushFrame_Front(fs, f) == <<f>> \o fs

(* parse's `file.frames.push(frame)` *)
PushFrame(fs, f) == Append(fs, f)

(* next_frame after its chunk loop: the layers are composited into the     *)
(* frame's image, and parse pushes the frame.                              *)
Finalize ==
    /\ pc = "chunks" /\ chunks_left = 0
    /\ LET blank == frame.image
       IN  IF FinalizePanics(blank, layers, frame.layers, 1)
           THEN Stop("panic", Because(last, "finalize"))
           ELSE /\ frames' = PushFrame(frames,
                       [frame EXCEPT !.image =
                           FinalizeImage(blank, layers, frame.layers, 1)])
                /\ tframes' = Append(tframes,
                       [layers |-> tframe,
                        image |-> FinalizeImage(blank, layers, tframe, 1)])
                /\ known' = Append(known, Len(layers))
                /\ frame' = NoFrame
                /\ tframe' = <<>>
                /\ pc' = "next_frame"
                /\ UNCHANGED <<total, offset, pos, header, cur_frame, layers,
                               chunks_left, result, last, ncels, cel1, nchunks,
                               touched>>
    /\ UNCHANGED aside_vars

Next ==
    \/ ParseHeader
    \/ ParseReturns
    \/ NextFrame
    \/ ApplySkipped
    \/ ApplyUnimplemented
    \/ ApplyLayer
    \/ ApplyCompressedCel
    \/ ApplyLinkedCel
    \/ ApplyUnimplementedCel
    \/ Finalize

Spec == Init /\ [][Next]_vars

----------------------------------------------------------------------------
(* One call of Image::draw on its own, for every destination, patch,       *)
(* placement, opacity and build profile of the sets below.                  *)

Clear == <<0, 0, 0, 0>>

(* The images of the given size with every pixel from the given set *)
RECURSIVE PixelBuffers(_, _)
PixelBuffers(n, pixels) ==
    IF n = 0 THEN {<<>>}
    ELSE {b \o px : b \in PixelBuffers(n - 1, pixels), px \in pixels}

Images(width, height, pixels) ==
    {ImageNewFromData(width, height, b) : b \in PixelBuffers(width * height, pixels)}

DrawSelves ==
    Images(2, 2, {Clear, Red, ClearRed}) \cup Images(1, 1, {HalfWhite})
    \cup {ImageNew(0, 1)}
DrawOthers ==
    Images(1, 1, Palette) \cup Images(2, 1, {Red, HalfWhite})
    \cup Images(1, 2, {Red})
    \cup {ImageNew(0, 0), ImageNew(40000, 0)}
DrawXs == {-1, 0, 1, I16Max}
DrawYs == {-1, 0, 1, 2, 8, I16Max}
DrawOpacities == {0, 128, 255}

InitDraw ==
    /\ DecoderIdle
    /\ MulIdle
    /\ SlicesIdle
    /\ PixelIdle
    /\ d_pc = "call"
    /\ d_self \in DrawSelves
    /\ d_other \in DrawOthers
    /\ d_x \in DrawXs
    /\ d_y \in DrawYs
    /\ d_opacity \in DrawOpacities
    /\ d_checks \in BOOLEAN
    /\ d_out = NoImage

(* draw returns: d_out is the destination after the call *)
DrawReturns ==
    /\ d_pc = "call"
    /\ ~DrawPanics(d_self, d_x, d_y, d_other, d_checks)
    /\ d_out' = draw(d_self, d_x, d_y, d_other, d_opacity)
    /\ d_pc' = "returned"
    /\ UNCHANGED <<d_self, d_x, d_y, d_other, d_opacity, d_checks>>
    /\ UNCHANGED <<decoder_vars, mul_vars, slice_vars, pixel_vars>>

(* draw panics *)
DrawUnwinds ==
    /\ d_pc = "call"
    /\ DrawPanics(d_self, d_x, d_y, d_other, d_checks)
    /\ d_pc' = "panic"
    /\ UNCHANGED <<d_self, d_x, d_y, d_other, d_opacity, d_checks, d_out>>
    /\ UNCHANGED <<decoder_vars, mul_vars, slice_vars, pixel_vars>>

NextDraw == DrawReturns \/ DrawUnwinds

SpecDraw == InitDraw /\ [][NextDraw]_vars

----------------------------------------------------------------------------
(* Slices and their user data.  src/src/metadata.rs declares the records   *)
(* (Slice, SliceKey, UserData) and src/src/constants.rs the chunk types    *)
(* and flag bits; the handlers of the two chunks are modelled from the     *)
(* specification (sections 3, 4.4 and 6): a slice chunk appends a slice    *)
(* with default user data, a user-data chunk attaches its text and / or    *)
(* colour to the slice appended last.                                      *)

UserDataDefault_Opaque == [string |-> "", r |-> 0, g |-> 0, b |-> 0, a |-> 255]

(* UserData::default(), from #[derive(Default)] *)
UserDataDefault == [string |-> "", r |-> 0, g |-> 0, b |-> 0, a |-> 0]

(* A slice as its chunk leaves it *)
NewSlice(name, keys) == [name |-> name, keys |-> keys, user_data |-> UserDataDefault]

(* A bit of a flags word is set *)
HasFlag(flags, bit) == (flags \div bit) % 2 = 1

(* The user data after a user-data chunk: the text if bit 0 is set, the    *)
(* colour if bit 1 is set, the rest as it was                              *)
AttachUserData(old, flags, text, color) ==
    LET t == HasFlag(flags, ASE_USER_DATA_FLAG_HAS_TEXT)
        c == HasFlag(flags, ASE_USER_DATA_FLAG_HAS_COLOR)
    IN  [string |-> IF t THEN text ELSE old.string,
         r |-> IF c THEN color[1] ELSE old.r,
         g |-> IF c THEN color[2] ELSE old.g,
         b |-> IF c THEN color[3] ELSE old.b,
         a |-> IF c THEN color[4] ELSE old.a]

SliceNames == {"hitbox"}
SliceKeyLists ==
    {<<[frame |-> 0, bounds |-> [x |-> 0, y |-> 0, w |-> 1, h |-> 2]]>>}
UserDataFlags == 0..3
UserTexts == {[text |-> "note", utf8 |-> TRUE], [text |-> "a", utf8 |-> TRUE],
              [text |-> "", utf8 |-> FALSE]}
UserColors == {<<10, 20, 30, 255>>, <<1, 2, 3, 4>>}

InitSlices ==
    /\ DecoderIdle
    /\ DrawIdle
    /\ MulIdle
    /\ PixelIdle
    /\ slices = <<>>
    /\ s_left \in 0..MaxSliceChunks
    /\ s_last = NoSliceChunk

(* A slice chunk: a slice is appended to the document's list *)
ApplySlice ==
    /\ s_left > 0
    /\ s_last.kind # "failed"
    /\ \E name \in SliceNames, keys \in SliceKeyLists :
         slices' = Append(slices, NewSlice(name, keys))
    /\ s_left' = s_left - 1
    /\ s_last' = [NoSliceChunk EXCEPT !.kind = "slice", !.after = s_last.kind]
    /\ UNCHANGED <<decoder_vars, draw_vars, mul_vars, pixel_vars>>

(* A user-data chunk: its text and colour go to the slice appended last;   *)
(* a text that is not UTF-8 ends the load (String::parse).                 *)
ApplyUserData ==
    /\ s_left > 0
    /\ s_last.kind # "failed"
    /\ \E flags \in UserDataFlags, text \in UserTexts, color \in UserColors :
         IF HasFlag(flags, ASE_USER_DATA_FLAG_HAS_TEXT) /\ ~text.utf8
         THEN /\ slices' = <<>>
              /\ s_left' = 0
              /\ s_last' = [NoSliceChunk EXCEPT !.kind = "failed",
                                                !.after = s_last.kind]
         ELSE /\ slices' =
                   IF slices = <<>> THEN slices
                   ELSE [slices EXCEPT ![Len(slices)].user_data =
                           AttachUserData(@, flags, text.text, color)]
              /\ s_left' = s_left - 1
              /\ s_last' = [kind |-> "user_data", after |-> s_last.kind,
                            flags |-> flags, text |-> text.text, color |-> color]
    /\ UNCHANGED <<decoder_vars, draw_vars, mul_vars, pixel_vars>>

NextSlices == ApplySlice \/ ApplyUserData

SpecSlices == InitSlices /\ [][NextSlices]_vars

----------------------------------------------------------------------------
(* One call of mul_un8 on its own, for every pair of 8-bit values *)

InitMul ==
    /\ DecoderIdle
    /\ DrawIdle
    /\ SlicesIdle
    /\ PixelIdle
    /\ m_pc = "call"
    /\ m_a \in 0..U8Max
    /\ m_b \in 0..U8Max
    /\ m_out = 0

MulReturns ==
    /\ m_pc = "call"
    /\ m_out' = mul_un8(m_a, m_b)
    /\ m_pc' = "returned"
    /\ UNCHANGED <<m_a, m_b>>
    /\ UNCHANGED <<decoder_vars, draw_vars, slice_vars, pixel_vars>>

NextMul == MulReturns

SpecMulUn8 == InitMul /\ [][NextMul]_vars

----------------------------------------------------------------------------
(* One call of Image::draw_pixel on a canvas of one pixel, for destination *)
(* pixels, source pixels and opacities over the levels below.              *)

AlphaLevels == {0, 1, 2, 3, 64, 127, 128, 129, 191, 253, 254, 255}
DstColours == {<<0, 0, 0>>, <<255, 255, 255>>, <<5, 100, 250>>}
SrcColours == {<<0, 0, 0>>, <<255, 255, 255>>, <<7, 200, 3>>}

InitPixel ==
    /\ DecoderIdle
    /\ DrawIdle
    /\ MulIdle
    /\ SlicesIdle
    /\ b_pc = "call"
    /\ b_dst \in {c \o <<a>> : c \in DstColours, a \in AlphaLevels}
    /\ b_src \in {c \o <<a>> : c \in SrcColours, a \in AlphaLevels}
    /\ b_opacity \in AlphaLevels
    /\ b_out = <<0, 0, 0, 0>>

(* draw_pixel at (0, 0) of a 1 x 1 canvas: b_out is the pixel after it *)
DrawPixelReturns ==
    /\ b_pc = "call"
    /\ ~DrawPixelPanics(ImageNewFromData(1, 1, b_dst), 0, 0)
    /\ b_out' = draw_pixel(ImageNewFromData(1, 1, b_dst), 0, 0, b_src[1],
                           b_src[2], b_src[3], b_src[4], b_opacity).data
    /\ b_pc' = "returned"
    /\ UNCHANGED <<b_dst, b_src, b_opacity>>
    /\ UNCHANGED <<decoder_vars, draw_vars, mul_vars, slice_vars>>

NextPixel == DrawPixelReturns

SpecPixel == InitPixel /\ [][NextPixel]_vars

----------------------------------------------------------------------------
(* Properties *)

(* Pixel p (from 0, row-major) of an image, as <<r, g, b, a>> *)
Pixel(img, p) ==
    <<img.data[4 * p + 1], img.data[4 * p + 2], img.data[4 * p + 3],
      img.data[4 * p + 4]>>

PixelCount(img) == Len(img.data) \div 4

Uniform(img, px) == \A p \in 0..(PixelCount(img) - 1) : Pixel(img, p) = px

(* Every pixel of alpha 0 is <<0, 0, 0, 0>> *)
CleanImage(img) ==
    \A p \in 0..(PixelCount(img) - 1) :
        Pixel(img, p)[4] = 0 => Pixel(img, p) = Clear

CelKinds == {"compressed", "link"}

(* C1: every frame appended to the document holds one per-layer canvas for *)
(* every layer known when it was finalized, and finalization does not      *)
(* fail for want of a canvas.                                              *)
C1_CanvasPerKnownLayer ==
    /\ \A i \in 1..Len(frames) : Len(frames[i].layers) = known[i]
    /\ ~(result = "panic" /\ last.cause = "finalize")

(* C2: a linked cel read in frame f that references frame k >= f ends the  *)
(* load with the CorruptFile error.                                        *)
C2_ForwardLinkIsCorruptFile ==
    (last.kind = "link" /\ last.linked_frame >= last.f) => result = "CorruptFile"

(* C3: a cel whose layer index is not below the number of layers defined   *)
(* so far ends the load with the CorruptFile error (stated for cels with   *)
(* nothing else wrong: the chunk size, the linked frame and the pixel data *)
(* are valid).                                                             *)
C3_LayerIndexIsCorruptFile ==
    ( /\ last.kind \in CelKinds
      /\ last.layer_index >= last.nlayers
      /\ last.cause \notin {"payload length", "data length", "linked frame"} )
    => result = "CorruptFile"

(* C4: a load that succeeds returns exactly header.frames frames, and at   *)
(* no time have more frame headers been read than the header declares.     *)
C4_DeclaredFrameCount ==
    /\ result = "Ok" => Len(frames) = header.frames
    /\ pc # "start" => cur_frame <= header.frames

(* a load of two frames has succeeded with the bytes of at least one more  *)
(* frame header left in the stream                                         *)
C4_Witness ==
    /\ result = "Ok"
    /\ header.frames = 2
    /\ Len(frames) = 2
    /\ total - offset >= FrameHeaderBytes

(* C5: after a chunk is applied the cursor is at chunk_start + the         *)
(* declared size, and advance_to moved it forward from where the handler   *)
(* left it (or not at all).                                                *)
C5_CursorAtChunkEnd ==
    last.applied =>
        /\ pos = last.start + last.size
        /\ last.start + ChunkHeaderBytes <= last.before
        /\ last.before <= pos

(* a layer chunk was applied and trailing bytes of it were skipped *)
C5_Witness ==
    /\ last.applied
    /\ last.kind = "layer"
    /\ last.before < pos
    /\ pos = last.start + last.size

(* C6: a chunk whose declared size is smaller than the bytes consumed for  *)
(* it ends the load with the CorruptFile error (stated for chunks of the   *)
(* handled types with nothing else wrong).                                 *)
C6_ShortChunkIsCorruptFile ==
    ( /\ last.kind \in {"skip", "layer", "compressed", "link"}
      /\ last.size < last.before - last.start
      /\ last.cause \in {"payload length", "advance_to"} )
    => result = "CorruptFile"

(* C7: the final image of every frame is the same in a second load of a    *)
(* stream that differs only in the cels of layers whose visibility bit is  *)
(* clear, as are the canvases of the visible layers; the canvas of an      *)
(* invisible layer still receives its cels, and a linked cel on it copies  *)
(* the referenced frame's canvas of that layer.                            *)
C7_InvisibleLayersLeaveNoTrace ==
    /\ Len(tframes) = Len(frames)
    /\ \A i \in 1..Len(frames) :
         /\ frames[i].image = tframes[i].image
         /\ \A j \in 1..Len(frames[i].layers) :
              VisibleBit(layers[j].flags)
                  => frames[i].layers[j] = tframes[i].layers[j]
    /\ ( /\ cel1 # NoCel
         /\ cel1.f < Len(frames)
         /\ ~VisibleBit(layers[cel1.layer_index + 1].flags)
         /\ cel1.x = 0 /\ cel1.y = 0 /\ cel1.opacity = 255 )
       => frames[cel1.f + 1].layers[cel1.layer_index + 1].data[4]
              >= cel1.cel.data[4]
    /\ ( /\ pc = "chunks"
         /\ last.kind = "link" /\ last.applied /\ last.fresh
         /\ last.x = 0 /\ last.y = 0 /\ last.opacity = 255
         /\ ~VisibleBit(layers[last.layer_index + 1].flags) )
       => /\ frame.layers[last.layer_index + 1] =
                frames[last.linked_frame + 1].layers[last.layer_index + 1]
          /\ tframe[last.layer_index + 1] =
                tframes[last.linked_frame + 1].layers[last.layer_index + 1]

(* a frame with a visible layer and an invisible one, both drawn on, whose *)
(* invisible canvas differs between the two loads                          *)
C7_Witness ==
    /\ Len(frames) = 2
    /\ Len(frames[2].layers) = 2
    /\ VisibleBit(layers[1].flags)
    /\ ~VisibleBit(layers[2].flags)
    /\ ~Uniform(frames[2].layers[1], Clear)
    /\ ~Uniform(frames[2].layers[2], Clear)
    /\ frames[2].layers[2] # tframes[2].layers[2]
    /\ ~Uniform(frames[2].image, Clear)

(* round(a * b / 255) *)
SpecMul(a, b) == (2 * a * b + 255) \div 510

(* The blend of section 4.6 of the specification on one pixel *)
SpecBlend(dst, src, opacity) ==
    LET sa == SpecMul(src[4], opacity)
        ra == sa + dst[4] - SpecMul(dst[4], sa)
    IN  IF ra = 0 THEN Clear
        ELSE << dst[1] + TruncDiv((src[1] - dst[1]) * sa, ra),
                dst[2] + TruncDiv((src[2] - dst[2]) * sa, ra),
                dst[3] + TruncDiv((src[3] - dst[3]) * sa, ra),
                ra >>

(* Pixel p of frame i composited from the canvases of the layers known at  *)
(* its finalization, from layer j on, over acc                             *)
RECURSIVE SpecComposite(_, _, _, _)
SpecComposite(i, p, j, acc) ==
    IF j > known[i] THEN acc
    ELSE IF VisibleBit(layers[j].flags)
    THEN SpecComposite(i, p, j + 1,
             SpecBlend(acc, Pixel(frames[i].layers[j], p), layers[j].opacity))
    ELSE SpecComposite(i, p, j + 1, acc)

(* Frame i is opaque red under half-opacity white *)
RedUnderHalfWhite(i) ==
    /\ known[i] = 2
    /\ Len(frames[i].layers) = 2
    /\ VisibleBit(layers[1].flags) /\ VisibleBit(layers[2].flags)
    /\ layers[1].opacity = 255
    /\ Uniform(frames[i].layers[1], Red)
    /\ \/ Uniform(frames[i].layers[2], HalfWhite) /\ layers[2].opacity = 255
       \/ Uniform(frames[i].layers[2], <<255, 255, 255, 255>>)
            /\ layers[2].opacity = 128

(* C8: the final image of every frame has the header's size and is, pixel  *)
(* by pixel, the blend over a transparent pixel of the canvases of the     *)
(* visible layers in declaration order, each with its layer's opacity;     *)
(* opaque red under half-opacity white gives (255, 128, 128, 255).         *)
C8_FinalImageIsComposite ==
    \A i \in 1..Len(frames) :
        /\ frames[i].image.width = header.width
        /\ frames[i].image.height = header.height
        /\ Len(frames[i].image.data) = header.width * header.height * 4
        /\ \A p \in 0..(header.width * header.height - 1) :
             Pixel(frames[i].image, p) = SpecComposite(i, p, 1, Clear)
        /\ RedUnderHalfWhite(i) => Uniform(frames[i].image, <<255, 128, 128, 255>>)

(* a frame of opaque red under half-opacity white has been finalized *)
C8_Witness ==
    \E i \in 1..Len(frames) :
        RedUnderHalfWhite(i) /\ PixelCount(frames[i].image) > 0

(* The load was of one frame and one layer, with one cel, compressed, of   *)
(* the canvas's size at (0, 0) with opacity 255                            *)
OneWholeCanvasCel ==
    /\ result = "Ok"
    /\ header.frames = 1
    /\ Len(layers) = 1
    /\ ncels = 1
    /\ cel1 # NoCel
    /\ cel1.cel.width = header.width /\ cel1.cel.height = header.height
    /\ cel1.x = 0 /\ cel1.y = 0 /\ cel1.opacity = 255

(* The buffer with every pixel of alpha 0 replaced by <<0, 0, 0, 0>> *)
Cleared(data) ==
    [i \in 1..Len(data) |->
        IF data[4 * ((i - 1) \div 4) + 4] = 0 THEN 0 ELSE data[i]]

(* C9 as stated: the final image is the decompressed buffer, byte for byte *)
C9_ImageIsBuffer ==
    OneWholeCanvasCel => frames[1].image.data = cel1.cel.data

(* C9, amended: when the layer is visible with opacity 255, the final      *)
(* image is the decompressed buffer with every pixel of alpha 0 cleared.   *)
C9_ImageIsClearedBuffer ==
    ( /\ OneWholeCanvasCel
      /\ VisibleBit(layers[1].flags)
      /\ layers[1].opacity = 255 )
    => frames[1].image.data = Cleared(cel1.cel.data)

(* such a load, of a buffer of an opaque and a translucent pixel *)
C9_Witness ==
    /\ OneWholeCanvasCel
    /\ VisibleBit(layers[1].flags)
    /\ layers[1].opacity = 255
    /\ Pixel(cel1.cel, 0) = Red
    /\ Pixel(cel1.cel, 1) = HalfWhite

(* C10: draw with opacity 0 returns and leaves every pixel of the          *)
(* destination as it was (stated for destinations with no pixel of alpha 0 *)
(* and a colour, and for placements without 16-bit overflow).              *)
C10_OpacityZeroChangesNothing ==
    ( /\ d_pc # "call"
      /\ d_opacity = 0
      /\ d_self.width > 0
      /\ CleanImage(d_self)
      /\ d_other.width <= I16Max /\ d_other.height <= I16Max
      /\ d_x + d_other.width <= I16Max
      /\ d_y + d_other.height <= I16Max )
    => (d_pc = "returned" /\ d_out = d_self)

(* C11: mul_un8(a, b) is the integer nearest to a*b/255 for every a, b in  *)
(* 0..255: twice its distance from a*b/255 is below 1, that is,            *)
(* |255 * out - a * b| * 2 < 255.                                          *)
C11_MulIsRoundedQuotient ==
    m_pc = "returned" =>
        /\ 2 * (255 * m_out - m_a * m_b) < 255
        /\ 2 * (m_a * m_b - 255 * m_out) < 255
        /\ m_out = SpecMul(m_a, m_b)

(* a product whose quotient by 255 is rounded up: 3 * 128 / 255 = 1.506 *)
C11_Witness == m_pc = "returned" /\ m_a = 3 /\ m_b = 128 /\ m_out = 2

(* The placement of the patch neither converts nor adds past 16 bits *)
PlacedWithin16Bits ==
    /\ d_other.width <= I16Max /\ d_other.height <= I16Max
    /\ d_x + d_other.width <= I16Max
    /\ d_y + d_other.height <= I16Max

(* Pixel p of the destination is the target of a pixel of the patch *)
InPatch(p) ==
    LET px == p % d_self.width
        py == p \div d_self.width
    IN  /\ d_x <= px /\ px < d_x + d_other.width
        /\ d_y <= py /\ py < d_y + d_other.height

(* C12: draw completes for every placement, and the pixels of the          *)
(* destination that no pixel of the patch targets are as they were         *)
(* (stated for destinations of non-zero width and placements without       *)
(* 16-bit overflow).                                                       *)
C12_DrawDropsOutsidePixels ==
    ( /\ d_pc # "call"
      /\ d_self.width > 0
      /\ PlacedWithin16Bits )
    => /\ d_pc = "returned"
       /\ Len(d_out.data) = Len(d_self.data)
       /\ \A p \in 0..(PixelCount(d_self) - 1) :
            ~InPatch(p) => Pixel(d_out, p) = Pixel(d_self, p)

Opaque(img) == \A p \in 0..(PixelCount(img) - 1) : Pixel(img, p)[4] = 255

(* The pixels of the destination that pixels of an opaque patch drawn with *)
(* opacity 255 target hold the patch's pixels                              *)
OpaqueReplaced ==
    \A k \in 0..(PixelCount(d_other) - 1) :
        LET tx == d_x + (k % d_other.width)
            ty == d_y + (k \div d_other.width)
        IN  ( /\ 0 <= tx /\ tx < d_self.width
              /\ 0 <= ty /\ ty < d_self.height )
            => Pixel(d_out, ty * d_self.width + tx) = Pixel(d_other, k)

(* Some pixel of the patch targets a pixel of the destination *)
CoversSomething ==
    \E p \in 0..(PixelCount(d_self) - 1) : d_self.width > 0 /\ InPatch(p)

(* C13: drawing a patch whose pixels all have alpha 255 with opacity 255   *)
(* over part of the destination completes and leaves every destination     *)
(* pixel it covers equal to the patch's pixel (stated for placements       *)
(* without 16-bit overflow).                                               *)
C13_OpaquePatchReplaces ==
    ( /\ d_pc # "call"
      /\ d_opacity = 255
      /\ Opaque(d_other)
      /\ CoversSomething
      /\ PlacedWithin16Bits )
    => (d_pc = "returned" /\ OpaqueReplaced)

(* The same, of the calls that return *)
OpaquePatchReplacesOnReturn ==
    (d_pc = "returned" /\ d_opacity = 255 /\ Opaque(d_other)) => OpaqueReplaced

(* a call that returns having replaced a pixel that held something else *)
OpaquePatchReplacedSomething ==
    /\ d_pc = "returned" /\ d_opacity = 255 /\ Opaque(d_other)
    /\ PixelCount(d_other) = 2
    /\ d_x = 0 /\ d_y = 1
    /\ d_self.width = 2
    /\ Pixel(d_self, 2) = ClearRed
    /\ Pixel(d_out, 2) = Red

(* The chunk types and cel types the claims call handled *)
DecorativeTypes ==
    {ASE_FILE_CHUNK_COLOR_PROFILE, ASE_FILE_CHUNK_PALETTE, ASE_FILE_CHUNK_FLI_COLOR2}

HandledTypes == DecorativeTypes \cup {ASE_FILE_CHUNK_LAYER, ASE_FILE_CHUNK_CEL}

HandledCelTypes == {ASE_FILE_LINK_CEL, ASE_FILE_COMPRESSED_CEL}

(* The header of a chunk was read *)
ChunkRead == last.kind \notin {"none", "short", "frame magic"}

NoDocument == pc = "done" /\ result # "Ok" /\ frames = <<>> /\ layers = <<>>

(* C14: a chunk of a type that is not handled, and a cel whose storage     *)
(* mode is neither linked nor compressed, ends the load with the           *)
(* Unimplemented error, whose message carries the type's number; no        *)
(* document is returned.                                                   *)
C14_UnhandledIsUnimplemented ==
    /\ (ChunkRead /\ last.type \notin HandledTypes)
       => /\ result = "Unimplemented"
          /\ last.message = <<"unhandled chunk type", last.type>>
          /\ NoDocument
    /\ ( /\ ChunkRead /\ last.type = ASE_FILE_CHUNK_CEL
         /\ last.kind \notin CelKinds
         /\ last.cel_type \notin HandledCelTypes )
       => /\ result = "Unimplemented"
          /\ last.message = <<"unhandled cel type", last.cel_type>>
          /\ NoDocument

(* a raw cel met in the second frame of a stream *)
C14_Witness ==
    /\ result = "Unimplemented"
    /\ last.kind = "cel"
    /\ last.cel_type = ASE_FILE_RAW_CEL
    /\ last.f = 1

(* a mask chunk met after a layer was defined *)
C14_WitnessChunk ==
    /\ result = "Unimplemented"
    /\ last.type = ASE_FILE_CHUNK_MASK
    /\ last.nlayers = 1

(* C15: a color profile, palette or FLI_COLOR2 chunk never ends the load   *)
(* with the Unimplemented error, and applying one leaves the layer list,   *)
(* the decoded frames, and the canvases, image and duration of the current *)
(* frame as they were when apply_chunk was called; the cursor is then at   *)
(* the chunk's declared end.                                               *)
C15_DecorativeChunksChangeNothing ==
    /\ []((ChunkRead /\ last.type \in DecorativeTypes) => result # "Unimplemented")
    /\ [][ ( /\ chunks_left' = chunks_left - 1
             /\ last'.applied
             /\ last'.type \in DecorativeTypes )
           => /\ layers' = layers
              /\ frames' = frames
              /\ frame'.layers = Canvases(frame.layers)
              /\ \A j \in 1..Len(frame.layers) : frame'.layers[j] = frame.layers[j]
              /\ frame'.image = frame.image
              /\ frame'.duration = frame.duration
              /\ result' = result
              /\ pos' = last'.start + last'.size ]_vars

(* a palette chunk applied after a layer was defined and drawn on *)
C15_Witness ==
    /\ pc = "chunks"
    /\ last.applied
    /\ last.type = ASE_FILE_CHUNK_PALETTE
    /\ Len(layers) = 1
    /\ Len(frame.layers) = 1
    /\ ~Uniform(frame.layers[1], Clear)

C17_BadMagicIsCorruptFile ==
    /\ (pc = "done" /\ header # NoHeader /\ header.magic # ASE_FILE_MAGIC)
       => result = "CorruptFile"
    /\ last.kind = "frame magic" => result = "CorruptFile"

(* C18: a compressed cel whose data does not decompress, or decompresses   *)
(* to a length other than width * height * 4, ends the load with the       *)
(* CorruptFile error and without a document.                               *)
C18_BadPixelDataIsCorruptFile ==
    (last.kind = "compressed" /\ last.cause \in {"inflate", "data length"})
    => (result = "CorruptFile" /\ NoDocument)

(* A linked cel has just been applied to a layer no other cel of the frame *)
(* was drawn on                                                            *)
OnlyCelIsLink == pc = "chunks" /\ last.kind = "link" /\ last.applied /\ last.fresh

(* C19: the canvas then equals the referenced frame's canvas of that       *)
(* layer, whatever offset and opacity the chunk carries.                   *)
C19_LinkedCelCopies ==
    OnlyCelIsLink =>
        frame.layers[last.layer_index + 1] =
            frames[last.linked_frame + 1].layers[last.layer_index + 1]

(* It does when the chunk carries the offset (0, 0) and the opacity 255 *)
LinkedCelCopiesAtOrigin ==
    (OnlyCelIsLink /\ last.x = 0 /\ last.y = 0 /\ last.opacity = 255) =>
        /\ last.linked_frame < last.f
        /\ frame.layers[last.layer_index + 1] =
              frames[last.linked_frame + 1].layers[last.layer_index + 1]

(* such a link to a canvas with an opaque and a translucent pixel *)
LinkedCelCopiedAtOrigin ==
    /\ OnlyCelIsLink /\ last.x = 0 /\ last.y = 0 /\ last.opacity = 255
    /\ Pixel(frame.layers[last.layer_index + 1], 0) = Red
    /\ Pixel(frame.layers[last.layer_index + 1], 1)[4] \in 1..254

(* C20: while the load goes on, and when it succeeds, every step leaves    *)
(* the layers and the frames it found where and as they were and appends   *)
(* at most one layer (a layer chunk) or one frame (the end of a frame's    *)
(* chunks); the frames number the frame headers read and finished.         *)
C20_AppendOnly ==
    /\ [][ result' \in {"running", "Ok"} =>
             /\ Len(layers') \in {Len(layers), Len(layers) + 1}
             /\ \A i \in 1..Len(layers) : layers'[i] = layers[i]
             /\ Len(layers') = Len(layers) + 1 => last'.kind = "layer"
             /\ Len(frames') \in {Len(frames), Len(frames) + 1}
             /\ \A i \in 1..Len(frames) : frames'[i] = frames[i]
             /\ Len(frames') = Len(frames) + 1
                   <=> (pc = "chunks" /\ pc' = "next_frame") ]_vars
    /\ [](pc = "chunks" => Len(frames) = cur_frame - 1)
    /\ []((pc = "next_frame" \/ result = "Ok") => Len(frames) = cur_frame)

(* a second frame, unlike the first, was appended after a linked cel read  *)
(* the first                                                               *)
C20_Witness ==
    /\ Len(frames) = 2
    /\ Len(layers) >= 1
    /\ last.kind = "link" /\ last.applied /\ last.linked_frame = 0
    /\ frames[1] # frames[2]

(* C21: in every state of the decoder, every pixel of alpha 0 of every     *)
(* canvas of the current frame, of every canvas of every appended frame    *)
(* and of every final image is (0, 0, 0, 0).                               *)
C21_TransparentPixelsAreZero ==
    /\ \A j \in 1..Len(frame.layers) : CleanImage(frame.layers[j])
    /\ CleanImage(frame.image)
    /\ \A i \in 1..Len(frames) :
         /\ CleanImage(frames[i].image)
         /\ \A j \in 1..Len(frames[i].layers) : CleanImage(frames[i].layers[j])

(* a cel whose first pixel has a colour and alpha 0 was drawn over the     *)
(* whole of a canvas that a frame was finalized with                       *)
C21_Witness ==
    /\ Len(frames) >= 1
    /\ cel1 # NoCel /\ cel1.f = 0 /\ cel1.x = 0 /\ cel1.y = 0
    /\ PixelCount(cel1.cel) = 2
    /\ Pixel(cel1.cel, 0) = ClearRed
    /\ Pixel(cel1.cel, 1) = HalfWhite
    /\ Pixel(frames[1].layers[cel1.layer_index + 1], 0) = Clear
    /\ Pixel(frames[1].layers[cel1.layer_index + 1], 1)[4] > 0

Between(v, a, b) ==
    /\ (IF a <= b THEN a ELSE b) <= v
    /\ v <= (IF a <= b THEN b ELSE a)

(* The effective source alpha and the result alpha of the call *)
EffectiveAlpha == mul_un8(b_src[4], b_opacity)

BlendAlpha == ResultAlpha(EffectiveAlpha, b_dst[4])

(* The result alpha is in [effective source alpha, 255] and is what is     *)
(* written, unwrapped                                                      *)
AlphaInRange ==
    /\ EffectiveAlpha \in 0..255
    /\ EffectiveAlpha <= BlendAlpha /\ BlendAlpha <= 255
    /\ b_out[4] = BlendAlpha

BlendStaysInRangeOverCleanDestination ==
    (b_pc = "returned" /\ (b_dst[4] = 0 => b_dst = <<0, 0, 0, 0>>)) =>
        /\ AlphaInRange
        /\ \A c \in 1..3 : Between(b_out[c], b_dst[c], b_src[c])

====
